---- MODULE Spec2Model ----
(***************************************************************************)
(* Model of the dynamic plugin loader (plugin-loader.ts): the pluginMap    *)
(* registry, loadDynamicPlugin (script injection), the plugin entry        *)
(* callback, loadAndEnablePlugin (activation) and the reset utility.       *)
(*                                                                         *)
(* JavaScript runs each handler to completion; an async function is one    *)
(* action per stretch of code between two awaits.  The logs (store,        *)
(* sharedInit, console) record the calls made to the collaborators, each   *)
(* stamped with the number of resets that preceded it.                     *)
(***************************************************************************)
EXTENDS Integers, Sequences, FiniteSets, TLC

\* ---- bounds -------------------------------------------------------------
MaxLoads == 2          \* direct loadDynamicPlugin calls
MaxActivations == 2    \* loadAndEnablePlugin calls
MaxEntryCalls == 2     \* invocations of window.loadPluginEntry
MaxResets == 1         \* resetStateAndEnvForTestPurposes calls
MaxCalls == 3          \* calls of all four kinds together

\* ---- inputs -------------------------------------------------------------
PluginNames == {"foo", "bar"}

\* Two versions of one plugin and a plugin of another name.
Manifests ==
  {[name |-> "foo", version |-> "1.0.0", extensions |-> <<"codeRef">>],
   [name |-> "foo", version |-> "2.0.0", extensions |-> <<"codeRef">>],
   [name |-> "bar", version |-> "1.0.0", extensions |-> <<"codeRef">>]}

NoManifest == [name |-> "", version |-> "", extensions |-> <<>>]

\* What the remote entry module makes the shared-module initializer do.
EntryModules == [initThrows : BOOLEAN, reenters : BOOLEAN]

basePath == "/"

VARIABLES
  pluginMap,        \* Map<string, ConsolePluginData>
  document,         \* elements of the document, in insertion order
  loadPluginEntry,  \* TRUE iff window.loadPluginEntry is bound
  loads,            \* one entry per loadDynamicPlugin call: promise + script
  activations,      \* one entry per loadAndEnablePlugin call
  store,            \* calls received by pluginStore, in order
  sharedInit,       \* calls received by initSharedPluginModulesCallback
  console,          \* console.error messages, in order
  uncaught,         \* exceptions thrown out of the entry callback
  entryCalls,       \* number of entry callback invocations so far
  resets            \* number of resets so far

vars == <<pluginMap, document, loadPluginEntry, loads, activations, store,
          sharedInit, console, uncaught, entryCalls, resets>>

\* ---- pure helpers -------------------------------------------------------
getPluginID(m) == m.name \o "@" \o m.version

scriptIDPrefix == "console-plugin"

\* Faulty variant: the element id is built from the plugin identifier.
getScriptElementID_byID(m) == scriptIDPrefix \o "-" \o getPluginID(m)

getScriptElementID(m) == scriptIDPrefix \o "-" \o m.name

PluginIDs == {getPluginID(m) : m \in Manifests}

startsWith(s, prefix) ==
  /\ Len(s) >= Len(prefix)
  /\ SubSeq(s, 1, Len(prefix)) = prefix

pluginsURL(pluginName) == basePath \o "api/plugins/" \o pluginName \o "/"

ReloadError(existingPluginID, pluginID) ==
  "Attempt to reload plugin " \o existingPluginID \o " with " \o pluginID

NoCallbackError(pluginID) ==
  "Entry script for plugin " \o pluginID \o " loaded without callback"

ScriptLoadError(scriptURL) ==
  "Error while loading plugin entry script from " \o scriptURL

\* Map.prototype.set
mapSet(map, key, value) ==
  [k \in DOMAIN map \cup {key} |-> IF k = key THEN value ELSE map[k]]

\* A promise settles once; later resolve/reject calls are ignored.
resolve(l, value) ==
  IF l.state = "pending" THEN [l EXCEPT !.state = "fulfilled", !.value = value]
  ELSE l

reject(l, error) ==
  IF l.state = "pending" THEN [l EXCEPT !.state = "rejected", !.value = error]
  ELSE l

\* ---- loadDynamicPlugin --------------------------------------------------
\* Faulty variant: the lookup compares plugin identifiers, not names.
existingPluginData_byID(manifest) ==
  {id \in DOMAIN pluginMap : id = getPluginID(manifest)}

\* Faulty variant: only plugins whose entry callback fired count as existing.
existingPluginData_firedOnly(manifest) ==
  {id \in DOMAIN pluginMap :
     /\ pluginMap[id].manifest.name = manifest.name
     /\ pluginMap[id].entryCallbackFired}

\* Array.from(pluginMap.values()).find((p) => p.manifest.name === manifest.name)
existingPluginData(manifest) ==
  {id \in DOMAIN pluginMap : pluginMap[id].manifest.name = manifest.name}

remoteEntryFile == "plugin-entry.js"

\* resolveURL(baseURL, remoteEntryFile, ...); the random cacheBuster value
\* is left out of the modelled URL.
scriptURL(baseURL) == baseURL \o remoteEntryFile \o "?cacheBuster="

\* Faulty variant: no return after rejecting a duplicate, so the executor
\* goes on to register the record and inject the script.
loadDynamicPlugin_noReturn(baseURL, manifest) ==
  LET pluginID == getPluginID(manifest)
      existing == existingPluginData(manifest)
      fresh == [manifest |-> manifest, pluginID |-> pluginID,
                state |-> "pending", value |-> "", script |-> "loading",
                src |-> scriptURL(baseURL), threw |-> FALSE, epoch |-> resets]
  IN /\ pluginMap' = mapSet(pluginMap, pluginID,
             [manifest |-> manifest, entryCallbackFired |-> FALSE])
     /\ document' = Append(document,
             [id |-> getScriptElementID(manifest), load |-> Len(loads) + 1])
     /\ loads' = Append(loads,
             IF existing # {}
             THEN reject(fresh, ReloadError(
                    getPluginID(
                      pluginMap[CHOOSE id \in existing : TRUE].manifest),
                    pluginID))
             ELSE fresh)

\* The promise executor; it runs synchronously inside the call.
loadDynamicPlugin(baseURL, manifest) ==
  LET pluginID == getPluginID(manifest)
      existing == existingPluginData(manifest)
      fresh == [manifest |-> manifest, pluginID |-> pluginID,
                state |-> "pending", value |-> "", script |-> "none",
                src |-> "", threw |-> FALSE, epoch |-> resets]
  IN IF existing # {}
     THEN LET existingPluginID ==
                getPluginID(pluginMap[CHOOSE id \in existing : TRUE].manifest)
          IN /\ loads' = Append(loads,
                  reject(fresh, ReloadError(existingPluginID, pluginID)))
             /\ UNCHANGED <<pluginMap, document>>
     ELSE /\ pluginMap' = mapSet(pluginMap, pluginID,
                  [manifest |-> manifest, entryCallbackFired |-> FALSE])
          /\ document' = Append(document,
                  [id |-> getScriptElementID(manifest),
                   load |-> Len(loads) + 1])
          /\ loads' = Append(loads,
                  [fresh EXCEPT !.script = "loading",
                                !.src = scriptURL(baseURL)])

\* Number of loadDynamicPlugin calls not made by loadAndEnablePlugin.
directLoads ==
  Len(loads) - Cardinality({a \in DOMAIN activations : activations[a].load # 0})

\* Number of calls made into the loader so far.
callsMade == directLoads + Len(activations) + entryCalls + resets

\* A caller other than loadAndEnablePlugin calls loadDynamicPlugin.
LoadDynamicPlugin(manifest) ==
  /\ directLoads < MaxLoads
  /\ callsMade < MaxCalls
  /\ loadDynamicPlugin(pluginsURL(manifest.name), manifest)
  /\ UNCHANGED <<loadPluginEntry, activations, store, sharedInit, console,
                 uncaught, entryCalls, resets>>

\* Faulty variant: the load handler resolves without looking at the flag.
ScriptOnLoad_noFlagCheck(i) ==
  /\ loads[i].script = "loading"
  /\ loads' = [loads EXCEPT
                 ![i] = [resolve(@, loads[i].pluginID)
                           EXCEPT !.script = "load"]]
  /\ UNCHANGED <<pluginMap, document, loadPluginEntry, activations, store,
                 sharedInit, console, uncaught, entryCalls, resets>>

\* Faulty variant: the load handler marks the callback as fired itself and
\* always resolves.
ScriptOnLoad_marksFired(i) ==
  /\ loads[i].script = "loading"
  /\ LET pluginID == loads[i].pluginID
     IN IF pluginID \notin DOMAIN pluginMap
        THEN /\ loads' = [loads EXCEPT ![i].script = "load",
                                       ![i].threw = TRUE]
             /\ pluginMap' = pluginMap
        ELSE /\ loads' = [loads EXCEPT
                            ![i] = [resolve(@, pluginID)
                                      EXCEPT !.script = "load"]]
             /\ pluginMap' = [pluginMap EXCEPT
                                ![pluginID].entryCallbackFired = TRUE]
  /\ UNCHANGED <<document, loadPluginEntry, activations, store,
                 sharedInit, console, uncaught, entryCalls, resets>>

\* script.onload
ScriptOnLoad(i) ==
  /\ loads[i].script = "loading"
  /\ LET pluginID == loads[i].pluginID
     IN IF pluginID \notin DOMAIN pluginMap
        THEN \* pluginMap.get(pluginID) is undefined: the handler throws
             loads' = [loads EXCEPT ![i].script = "load", ![i].threw = TRUE]
        ELSE IF pluginMap[pluginID].entryCallbackFired
        THEN loads' = [loads EXCEPT
                         ![i] = [resolve(@, pluginID) EXCEPT !.script = "load"]]
        ELSE loads' = [loads EXCEPT
                         ![i] = [reject(@, NoCallbackError(pluginID))
                                   EXCEPT !.script = "load"]]
  /\ UNCHANGED <<pluginMap, document, loadPluginEntry, activations, store,
                 sharedInit, console, uncaught, entryCalls, resets>>

\* Faulty variant: a failed script load also drops the plugin's record.
ScriptOnError_cleanup(i) ==
  /\ loads[i].script = "loading"
  /\ loads' = [loads EXCEPT
                 ![i] = [reject(@, ScriptLoadError(loads[i].src))
                           EXCEPT !.script = "error"]]
  /\ pluginMap' = [id \in DOMAIN pluginMap \ {loads[i].pluginID} |->
                     pluginMap[id]]
  /\ UNCHANGED <<document, loadPluginEntry, activations, store, sharedInit,
                 console, uncaught, entryCalls, resets>>

\* script.onerror
ScriptOnError(i) ==
  /\ loads[i].script = "loading"
  /\ loads' = [loads EXCEPT
                 ![i] = [reject(@, ScriptLoadError(loads[i].src))
                           EXCEPT !.script = "error"]]
  /\ UNCHANGED <<pluginMap, document, loadPluginEntry, activations, store,
                 sharedInit, console, uncaught, entryCalls, resets>>

\* ---- the plugin entry callback ------------------------------------------
resolveEncodedCodeRefs(extensions, pluginID) ==
  [i \in DOMAIN extensions |-> <<"resolved", pluginID, extensions[i]>>]

consoleError(s, message) ==
  [s EXCEPT !.console = Append(@, [message |-> message, epoch |-> resets])]

UnknownPluginMessage(pluginID) ==
  "Received callback for unknown plugin " \o pluginID

AlreadyLoadedMessage(pluginID) ==
  "Received callback for already loaded plugin " \o pluginID

InitFailedMessage(pluginID) ==
  "Failed to initialize shared modules for plugin " \o pluginID

\* Faulty variant: no check for an unknown plugin; reading the flag of the
\* missing record throws.
RECURSIVE entryCallback_noUnknownCheck(_, _, _)
entryCallback_noUnknownCheck(s, pluginID, entryModule) ==
  IF pluginID \notin DOMAIN s.pluginMap
  THEN [s EXCEPT !.uncaught = Append(@, "TypeError")]
  ELSE IF s.pluginMap[pluginID].entryCallbackFired
  THEN consoleError(s, AlreadyLoadedMessage(pluginID))
  ELSE
    LET pluginData == s.pluginMap[pluginID]
        s1 == [s EXCEPT !.pluginMap[pluginID].entryCallbackFired = TRUE]
        s2 == [s1 EXCEPT !.sharedInit =
                 Append(@, [pluginID |-> pluginID, epoch |-> resets])]
        s3 == IF entryModule.reenters
              THEN entryCallback_noUnknownCheck(s2, pluginID,
                      [entryModule EXCEPT !.reenters = FALSE])
              ELSE s2
    IN IF entryModule.initThrows
       THEN consoleError(s3, InitFailedMessage(pluginID))
       ELSE [s3 EXCEPT !.store =
               Append(@, [op |-> "addDynamicPlugin", id |-> pluginID,
                          manifest |-> pluginData.manifest,
                          extensions |-> resolveEncodedCodeRefs(
                             pluginData.manifest.extensions, pluginID),
                          epoch |-> resets])]

\* Faulty variant: no check for an already fired callback.
RECURSIVE entryCallback_noFiredCheck(_, _, _)
entryCallback_noFiredCheck(s, pluginID, entryModule) ==
  IF pluginID \notin DOMAIN s.pluginMap
  THEN consoleError(s, UnknownPluginMessage(pluginID))
  ELSE
    LET pluginData == s.pluginMap[pluginID]
        s1 == [s EXCEPT !.pluginMap[pluginID].entryCallbackFired = TRUE]
        s2 == [s1 EXCEPT !.sharedInit =
                 Append(@, [pluginID |-> pluginID, epoch |-> resets])]
        s3 == IF entryModule.reenters
              THEN entryCallback_noFiredCheck(s2, pluginID,
                      [entryModule EXCEPT !.reenters = FALSE])
              ELSE s2
    IN IF entryModule.initThrows
       THEN consoleError(s3, InitFailedMessage(pluginID))
       ELSE [s3 EXCEPT !.store =
               Append(@, [op |-> "addDynamicPlugin", id |-> pluginID,
                          manifest |-> pluginData.manifest,
                          extensions |-> resolveEncodedCodeRefs(
                             pluginData.manifest.extensions, pluginID),
                          epoch |-> resets])]

\* Faulty variant: the catch block logs but does not return.
RECURSIVE entryCallback_noReturnInCatch(_, _, _)
entryCallback_noReturnInCatch(s, pluginID, entryModule) ==
  IF pluginID \notin DOMAIN s.pluginMap
  THEN consoleError(s, UnknownPluginMessage(pluginID))
  ELSE IF s.pluginMap[pluginID].entryCallbackFired
  THEN consoleError(s, AlreadyLoadedMessage(pluginID))
  ELSE
    LET pluginData == s.pluginMap[pluginID]
        s1 == [s EXCEPT !.pluginMap[pluginID].entryCallbackFired = TRUE]
        s2 == [s1 EXCEPT !.sharedInit =
                 Append(@, [pluginID |-> pluginID, epoch |-> resets])]
        s3 == IF entryModule.reenters
              THEN entryCallback_noReturnInCatch(s2, pluginID,
                      [entryModule EXCEPT !.reenters = FALSE])
              ELSE s2
        s4 == IF entryModule.initThrows
              THEN consoleError(s3, InitFailedMessage(pluginID))
              ELSE s3
    IN [s4 EXCEPT !.store =
               Append(@, [op |-> "addDynamicPlugin", id |-> pluginID,
                          manifest |-> pluginData.manifest,
                          extensions |-> resolveEncodedCodeRefs(
                             pluginData.manifest.extensions, pluginID),
                          epoch |-> resets])]

\* The handler as a function of the state it touches.  A module whose
\* initializer re-enters calls the same handler, for the same identifier,
\* from inside initSharedPluginModulesCallback.
\* Faulty variant: the store gets a copy of the manifest without its
\* extensions instead of the stored manifest.
RECURSIVE entryCallback_strippedManifest(_, _, _)
entryCallback_strippedManifest(s, pluginID, entryModule) ==
  IF pluginID \notin DOMAIN s.pluginMap
  THEN consoleError(s, UnknownPluginMessage(pluginID))
  ELSE IF s.pluginMap[pluginID].entryCallbackFired
  THEN consoleError(s, AlreadyLoadedMessage(pluginID))
  ELSE
    LET pluginData == s.pluginMap[pluginID]
        s1 == [s EXCEPT !.pluginMap[pluginID].entryCallbackFired = TRUE]
        s2 == [s1 EXCEPT !.sharedInit =
                 Append(@, [pluginID |-> pluginID, epoch |-> resets])]
        s3 == IF entryModule.reenters
              THEN entryCallback_strippedManifest(s2, pluginID,
                                 [entryModule EXCEPT !.reenters = FALSE])
              ELSE s2
    IN IF entryModule.initThrows
       THEN consoleError(s3, InitFailedMessage(pluginID))
       ELSE [s3 EXCEPT !.store =
               Append(@, [op |-> "addDynamicPlugin", id |-> pluginID,
                          manifest |-> [pluginData.manifest
                                          EXCEPT !.extensions = <<>>],
                          extensions |-> resolveEncodedCodeRefs(
                             pluginData.manifest.extensions, pluginID),
                          epoch |-> resets])]

\* Faulty variant: the flag is set only after the shared-module initializer
\* returned, so a reentrant callback still finds it false.
RECURSIVE entryCallback_flipAfterInit(_, _, _)
entryCallback_flipAfterInit(s, pluginID, entryModule) ==
  IF pluginID \notin DOMAIN s.pluginMap
  THEN consoleError(s, UnknownPluginMessage(pluginID))
  ELSE IF s.pluginMap[pluginID].entryCallbackFired
  THEN consoleError(s, AlreadyLoadedMessage(pluginID))
  ELSE
    LET pluginData == s.pluginMap[pluginID]
        s1 == [s EXCEPT !.sharedInit =
                 Append(@, [pluginID |-> pluginID, epoch |-> resets])]
        s2 == IF entryModule.reenters
              THEN entryCallback_flipAfterInit(s1, pluginID,
                                 [entryModule EXCEPT !.reenters = FALSE])
              ELSE s1
        s3 == [s2 EXCEPT !.pluginMap[pluginID].entryCallbackFired = TRUE]
    IN IF entryModule.initThrows
       THEN consoleError(s3, InitFailedMessage(pluginID))
       ELSE [s3 EXCEPT !.store =
               Append(@, [op |-> "addDynamicPlugin", id |-> pluginID,
                          manifest |-> pluginData.manifest,
                          extensions |-> resolveEncodedCodeRefs(
                             pluginData.manifest.extensions, pluginID),
                          epoch |-> resets])]

RECURSIVE entryCallback(_, _, _)
entryCallback(s, pluginID, entryModule) ==
  IF pluginID \notin DOMAIN s.pluginMap
  THEN consoleError(s, UnknownPluginMessage(pluginID))
  ELSE IF s.pluginMap[pluginID].entryCallbackFired
  THEN consoleError(s, AlreadyLoadedMessage(pluginID))
  ELSE
    LET pluginData == s.pluginMap[pluginID]
        s1 == [s EXCEPT !.pluginMap[pluginID].entryCallbackFired = TRUE]
        s2 == [s1 EXCEPT !.sharedInit =
                 Append(@, [pluginID |-> pluginID, epoch |-> resets])]
        s3 == IF entryModule.reenters
              THEN entryCallback(s2, pluginID,
                                 [entryModule EXCEPT !.reenters = FALSE])
              ELSE s2
    IN IF entryModule.initThrows
       THEN consoleError(s3, InitFailedMessage(pluginID))
       ELSE [s3 EXCEPT !.store =
               Append(@, [op |-> "addDynamicPlugin", id |-> pluginID,
                          manifest |-> pluginData.manifest,
                          extensions |-> resolveEncodedCodeRefs(
                             pluginData.manifest.extensions, pluginID),
                          epoch |-> resets])]

\* window.loadPluginEntry(pluginID, entryModule)
EntryCallback(pluginID, entryModule) ==
  /\ loadPluginEntry
  /\ entryCalls < MaxEntryCalls
  /\ callsMade < MaxCalls
  /\ LET s == entryCallback([pluginMap |-> pluginMap, store |-> store,
                             sharedInit |-> sharedInit, console |-> console,
                             uncaught |-> uncaught],
                            pluginID, entryModule)
     IN /\ pluginMap' = s.pluginMap
        /\ store' = s.store
        /\ sharedInit' = s.sharedInit
        /\ console' = s.console
        /\ uncaught' = s.uncaught
  /\ entryCalls' = entryCalls + 1
  /\ UNCHANGED <<document, loadPluginEntry, loads, activations, resets>>

RegisterPluginEntryCallback ==
  /\ ~loadPluginEntry
  /\ loadPluginEntry' = TRUE
  /\ UNCHANGED <<pluginMap, document, loads, activations, store, sharedInit,
                 console, uncaught, entryCalls, resets>>

\* ---- loadAndEnablePlugin ------------------------------------------------
\* Called; runs up to the first await (fetchPluginManifest).
LoadAndEnablePlugin(pluginName) ==
  /\ Len(activations) < MaxActivations
  /\ callsMade < MaxCalls
  /\ activations' = Append(activations,
       [pluginName |-> pluginName, pc |-> "fetchPluginManifest",
        manifest |-> NoManifest, load |-> 0, onError |-> <<>>,
        calls |-> <<"fetchPluginManifest">>])
  /\ UNCHANGED <<pluginMap, document, loadPluginEntry, loads, store,
                 sharedInit, console, uncaught, entryCalls, resets>>

\* fetchPluginManifest resolved with the manifest served for pluginName:
\* start dependency resolution.
FetchManifestResolved(a, manifest) ==
  /\ activations[a].pc = "fetchPluginManifest"
  /\ manifest.name = activations[a].pluginName
  /\ activations' = [activations EXCEPT
       ![a].manifest = manifest,
       ![a].pc = "resolvePluginDependencies",
       ![a].calls = @ \o <<"getAllowedDynamicPluginNames",
                           "resolvePluginDependencies">>]
  /\ UNCHANGED <<pluginMap, document, loadPluginEntry, loads, store,
                 sharedInit, console, uncaught, entryCalls, resets>>

\* fetchPluginManifest rejected.
FetchManifestRejected(a) ==
  /\ activations[a].pc = "fetchPluginManifest"
  /\ activations' = [activations EXCEPT
       ![a].pc = "done",
       ![a].onError = Append(@, "Failed to get a valid plugin manifest from "
                                  \o pluginsURL(activations[a].pluginName)),
       ![a].calls = Append(@, "onError")]
  /\ UNCHANGED <<pluginMap, document, loadPluginEntry, loads, store,
                 sharedInit, console, uncaught, entryCalls, resets>>

\* resolvePluginDependencies resolved: call loadDynamicPlugin and await it.
DependenciesResolved(a) ==
  /\ activations[a].pc = "resolvePluginDependencies"
  /\ loadDynamicPlugin(pluginsURL(activations[a].pluginName),
                       activations[a].manifest)
  /\ activations' = [activations EXCEPT
       ![a].pc = "loadDynamicPlugin",
       ![a].load = Len(loads) + 1,
       ![a].calls = Append(@, "loadDynamicPlugin")]
  /\ UNCHANGED <<loadPluginEntry, store, sharedInit, console, uncaught,
                 entryCalls, resets>>

\* Faulty variant: the catch block reports the failure but does not return,
\* so the function goes on to call loadDynamicPlugin.
DependenciesRejected_noReturn(a) ==
  /\ activations[a].pc = "resolvePluginDependencies"
  /\ loadDynamicPlugin(pluginsURL(activations[a].pluginName),
                       activations[a].manifest)
  /\ activations' = [activations EXCEPT
       ![a].pc = "loadDynamicPlugin",
       ![a].load = Len(loads) + 1,
       ![a].onError = Append(@, "Failed to resolve dependencies of plugin "
                                  \o activations[a].pluginName),
       ![a].calls = @ \o <<"onError", "loadDynamicPlugin">>]
  /\ UNCHANGED <<loadPluginEntry, store, sharedInit, console, uncaught,
                 entryCalls, resets>>

\* resolvePluginDependencies rejected.
DependenciesRejected(a) ==
  /\ activations[a].pc = "resolvePluginDependencies"
  /\ activations' = [activations EXCEPT
       ![a].pc = "done",
       ![a].onError = Append(@, "Failed to resolve dependencies of plugin "
                                  \o activations[a].pluginName),
       ![a].calls = Append(@, "onError")]
  /\ UNCHANGED <<pluginMap, document, loadPluginEntry, loads, store,
                 sharedInit, console, uncaught, entryCalls, resets>>

\* Faulty variant: the plugin is enabled under its name, not its identifier.
LoadSettled_enablesName(a) ==
  /\ activations[a].pc = "loadDynamicPlugin"
  /\ loads[activations[a].load].state # "pending"
  /\ IF loads[activations[a].load].state = "rejected"
     THEN /\ activations' = [activations EXCEPT
               ![a].pc = "done",
               ![a].onError = Append(@, "Failed to load entry script of plugin "
                                          \o activations[a].pluginName),
               ![a].calls = Append(@, "onError")]
          /\ UNCHANGED store
     ELSE /\ store' = Append(store,
               [op |-> "setDynamicPluginEnabled",
                id |-> activations[a].pluginName,
                enabled |-> TRUE, epoch |-> resets])
          /\ activations' = [activations EXCEPT
               ![a].pc = "done",
               ![a].calls = Append(@, "setDynamicPluginEnabled")]
  /\ UNCHANGED <<pluginMap, document, loadPluginEntry, loads, sharedInit,
                 console, uncaught, entryCalls, resets>>

\* Faulty variant: the catch block reports the failure but does not return,
\* so the plugin is enabled all the same.
LoadSettled_noReturn(a) ==
  /\ activations[a].pc = "loadDynamicPlugin"
  /\ loads[activations[a].load].state # "pending"
  /\ store' = Append(store,
       [op |-> "setDynamicPluginEnabled",
        id |-> getPluginID(activations[a].manifest),
        enabled |-> TRUE, epoch |-> resets])
  /\ IF loads[activations[a].load].state = "rejected"
     THEN activations' = [activations EXCEPT
               ![a].pc = "done",
               ![a].onError = Append(@, "Failed to load entry script of plugin "
                                          \o activations[a].pluginName),
               ![a].calls = @ \o <<"onError", "setDynamicPluginEnabled">>]
     ELSE activations' = [activations EXCEPT
               ![a].pc = "done",
               ![a].calls = Append(@, "setDynamicPluginEnabled")]
  /\ UNCHANGED <<pluginMap, document, loadPluginEntry, loads, sharedInit,
                 console, uncaught, entryCalls, resets>>

\* The loadDynamicPlugin promise has settled: the function resumes.
\* Faulty variant: the promise is not awaited, so the activation goes on
\* to enable the plugin whatever the state of the promise.
LoadSettled_noAwait(a) ==
  /\ activations[a].pc = "loadDynamicPlugin"
  /\ store' = Append(store,
       [op |-> "setDynamicPluginEnabled",
        id |-> getPluginID(activations[a].manifest),
        enabled |-> TRUE, epoch |-> resets])
  /\ activations' = [activations EXCEPT
       ![a].pc = "done",
       ![a].calls = Append(@, "setDynamicPluginEnabled")]
  /\ UNCHANGED <<pluginMap, document, loadPluginEntry, loads, sharedInit,
                 console, uncaught, entryCalls, resets>>

\* Faulty variant: a failed injection also drops the plugin's record.
LoadSettled_cleanup(a) ==
  /\ activations[a].pc = "loadDynamicPlugin"
  /\ loads[activations[a].load].state # "pending"
  /\ IF loads[activations[a].load].state = "rejected"
     THEN /\ activations' = [activations EXCEPT
               ![a].pc = "done",
               ![a].onError = Append(@, "Failed to load entry script of plugin "
                                          \o activations[a].pluginName),
               ![a].calls = Append(@, "onError")]
          /\ pluginMap' =
               [id \in DOMAIN pluginMap \
                         {getPluginID(activations[a].manifest)} |->
                  pluginMap[id]]
          /\ UNCHANGED store
     ELSE /\ store' = Append(store,
               [op |-> "setDynamicPluginEnabled",
                id |-> getPluginID(activations[a].manifest),
                enabled |-> TRUE, epoch |-> resets])
          /\ activations' = [activations EXCEPT
               ![a].pc = "done",
               ![a].calls = Append(@, "setDynamicPluginEnabled")]
          /\ UNCHANGED pluginMap
  /\ UNCHANGED <<document, loadPluginEntry, loads, sharedInit,
                 console, uncaught, entryCalls, resets>>

LoadSettled(a) ==
  /\ activations[a].pc = "loadDynamicPlugin"
  /\ loads[activations[a].load].state # "pending"
  /\ IF loads[activations[a].load].state = "rejected"
     THEN /\ activations' = [activations EXCEPT
               ![a].pc = "done",
               ![a].onError = Append(@, "Failed to load entry script of plugin "
                                          \o activations[a].pluginName),
               ![a].calls = Append(@, "onError")]
          /\ UNCHANGED store
     ELSE /\ store' = Append(store,
               [op |-> "setDynamicPluginEnabled",
                id |-> getPluginID(activations[a].manifest),
                enabled |-> TRUE, epoch |-> resets])
          /\ activations' = [activations EXCEPT
               ![a].pc = "done",
               ![a].calls = Append(@, "setDynamicPluginEnabled")]
  /\ UNCHANGED <<pluginMap, document, loadPluginEntry, loads, sharedInit,
                 console, uncaught, entryCalls, resets>>

\* ---- reset --------------------------------------------------------------
\* Faulty variant: the injected script elements are left in the document.
ResetStateAndEnvForTestPurposes_keepsScripts ==
  /\ resets < MaxResets
  /\ callsMade < MaxCalls
  /\ pluginMap' = <<>>
  /\ loadPluginEntry' = FALSE
  /\ resets' = resets + 1
  /\ UNCHANGED <<document, loads, activations, store, sharedInit, console,
                 uncaught, entryCalls>>

ResetStateAndEnvForTestPurposes ==
  /\ resets < MaxResets
  /\ callsMade < MaxCalls
  /\ pluginMap' = <<>>
  /\ document' = SelectSeq(document,
                    LAMBDA e : ~startsWith(e.id, scriptIDPrefix))
  /\ loadPluginEntry' = FALSE
  /\ resets' = resets + 1
  /\ UNCHANGED <<loads, activations, store, sharedInit, console, uncaught,
                 entryCalls>>

\* ---- specification ------------------------------------------------------
Init ==
  /\ pluginMap = <<>>
  /\ document = <<[id |-> "app", load |-> 0]>>
  /\ loadPluginEntry = FALSE
  /\ loads = <<>>
  /\ activations = <<>>
  /\ store = <<>>
  /\ sharedInit = <<>>
  /\ console = <<>>
  /\ uncaught = <<>>
  /\ entryCalls = 0
  /\ resets = 0

Next ==
  \/ \E m \in Manifests : LoadDynamicPlugin(m)
  \/ \E i \in DOMAIN loads : ScriptOnLoad(i)
  \/ \E i \in DOMAIN loads : ScriptOnError(i)
  \/ \E id \in PluginIDs, em \in EntryModules : EntryCallback(id, em)
  \/ RegisterPluginEntryCallback
  \/ \E n \in PluginNames : LoadAndEnablePlugin(n)
  \/ \E a \in DOMAIN activations, m \in Manifests : FetchManifestResolved(a, m)
  \/ \E a \in DOMAIN activations : FetchManifestRejected(a)
  \/ \E a \in DOMAIN activations : DependenciesResolved(a)
  \/ \E a \in DOMAIN activations : DependenciesRejected(a)
  \/ \E a \in DOMAIN activations : LoadSettled(a)
  \/ ResetStateAndEnvForTestPurposes

Spec == Init /\ [][Next]_vars

TypeOK ==
  /\ DOMAIN pluginMap \subseteq PluginIDs
  /\ Len(loads) <= MaxLoads + MaxActivations
  /\ Len(activations) <= MaxActivations
  /\ entryCalls <= MaxEntryCalls
  /\ resets <= MaxResets

\* ---- properties ---------------------------------------------------------
passed(l) == l.script # "none"

isDuplicateError(l) ==
  /\ l.state = "rejected"
  /\ startsWith(l.value, "Attempt to reload plugin ")

initCalls(id, e) ==
  {k \in DOMAIN sharedInit :
     sharedInit[k].pluginID = id /\ sharedInit[k].epoch = e}

addCalls(id, e) ==
  {k \in DOMAIN store :
     /\ store[k].op = "addDynamicPlugin"
     /\ store[k].id = id
     /\ store[k].epoch = e}

logged(message, e) ==
  \E k \in DOMAIN console : console[k] = [message |-> message, epoch |-> e]

initFailed(id, e) == logged(InitFailedMessage(id), e)

\* C1: once a loadDynamicPlugin call has inserted its record, every later
\* loadDynamicPlugin call before a reset for a manifest of the same name is
\* rejected with the duplicate-plugin error, and that call leaves pluginMap
\* and the document as they were.
C1_DuplicateNameRejected ==
  [][\A i \in DOMAIN loads :
       (/\ Len(loads') = Len(loads) + 1
        /\ passed(loads[i])
        /\ loads[i].epoch = resets
        /\ loads[i].manifest.name = loads'[Len(loads')].manifest.name)
       => /\ isDuplicateError(loads'[Len(loads')])
          /\ ~passed(loads'[Len(loads')])
          /\ pluginMap' = pluginMap
          /\ document' = document]_vars

C1_Witness ==
  \E i, j \in DOMAIN loads :
    /\ i < j
    /\ passed(loads[i])
    /\ loads[i].epoch = loads[j].epoch
    /\ loads[i].manifest.name = loads[j].manifest.name
    /\ loads[i].manifest.version # loads[j].manifest.version
    /\ isDuplicateError(loads[j])
    /\ loads[j].pluginID \notin DOMAIN pluginMap

\* C2: in every reachable state pluginMap holds at most one record per
\* manifest name.
C2_OneRecordPerName ==
  \A id1, id2 \in DOMAIN pluginMap :
    pluginMap[id1].manifest.name = pluginMap[id2].manifest.name => id1 = id2

C2_Witness ==
  /\ Cardinality(DOMAIN pluginMap) = 2
  /\ \E j \in DOMAIN loads :
       /\ isDuplicateError(loads[j])
       /\ loads[j].epoch = resets
       /\ loads[j].pluginID \notin DOMAIN pluginMap

\* C3: the entry callback invoked with an identifier that has no record is a
\* no-op: no initializer call, no store call, pluginMap unchanged, nothing
\* thrown.
C3_UnknownCallbackNoOp ==
  [][\A id \in PluginIDs, em \in EntryModules :
       (EntryCallback(id, em) /\ id \notin DOMAIN pluginMap)
       => UNCHANGED <<pluginMap, store, sharedInit, uncaught, document,
                      loads>>]_vars

C3_Witness ==
  /\ "foo@1.0.0" \in DOMAIN pluginMap
  /\ logged(UnknownPluginMessage("foo@2.0.0"), resets)
  /\ sharedInit = <<>>
  /\ store = <<>>
  /\ uncaught = <<>>

\* C4: between two resets the initializer and addDynamicPlugin are each
\* called at most once per plugin identifier, and an entry callback that
\* finds the flag already set changes nothing.
C4_CallbackAtMostOnce ==
  /\ [](\A id \in PluginIDs, e \in 0..resets :
          /\ Cardinality(initCalls(id, e)) <= 1
          /\ Cardinality(addCalls(id, e)) <= 1)
  /\ [][\A id \in PluginIDs, em \in EntryModules :
          (/\ EntryCallback(id, em)
           /\ id \in DOMAIN pluginMap
           /\ pluginMap[id].entryCallbackFired)
          => UNCHANGED <<pluginMap, store, sharedInit, uncaught>>]_vars

C4_Witness ==
  /\ entryCalls = 2
  /\ \E id \in PluginIDs :
       /\ logged(AlreadyLoadedMessage(id), resets)
       /\ Cardinality(initCalls(id, resets)) = 1
       /\ Cardinality(addCalls(id, resets)) = 1

\* C5: if the initializer throws in the entry callback of a plugin, no
\* addDynamicPlugin call is made for it, its record keeps the flag set, and
\* the load event of its script still resolves the promise with its id.
C5_InitFailureStillResolves ==
  /\ [](\A id \in PluginIDs, e \in 0..resets :
          initFailed(id, e) => addCalls(id, e) = {})
  /\ [](\A id \in PluginIDs :
          initFailed(id, resets)
          => id \in DOMAIN pluginMap /\ pluginMap[id].entryCallbackFired)
  /\ [][\A i \in DOMAIN loads :
          (/\ ScriptOnLoad(i)
           /\ loads[i].epoch = resets
           /\ initFailed(loads[i].pluginID, resets))
          => /\ loads'[i].state = "fulfilled"
             /\ loads'[i].value = loads[i].pluginID]_vars

C5_Witness ==
  \E i \in DOMAIN loads :
    /\ loads[i].state = "fulfilled"
    /\ loads[i].value = loads[i].pluginID
    /\ initFailed(loads[i].pluginID, loads[i].epoch)
    /\ addCalls(loads[i].pluginID, loads[i].epoch) = {}

Pipeline ==
  <<"fetchPluginManifest", "getAllowedDynamicPluginNames",
    "resolvePluginDependencies", "loadDynamicPlugin",
    "setDynamicPluginEnabled">>

isPrefix(s, t) == Len(s) <= Len(t) /\ SubSeq(t, 1, Len(s)) = s

count(seq, x) == Cardinality({k \in DOMAIN seq : seq[k] = x})

failedAt(a, stage) ==
  activations[a].calls = SubSeq(Pipeline, 1, stage) \o <<"onError">>

enableCalls(id) ==
  {k \in DOMAIN store :
     /\ store[k].op = "setDynamicPluginEnabled"
     /\ store[k].id = id
     /\ store[k].enabled}

\* C6: an activation runs fetch, dependency resolution, script injection
\* and enabling in that order; after a failed stage it calls onError and
\* nothing else: a fetch or dependency failure makes no loadDynamicPlugin
\* call and touches neither pluginMap, the document nor the store, and a
\* rejected loadDynamicPlugin is never followed by setDynamicPluginEnabled.
C6_StrictPipeline ==
  /\ [](\A a \in DOMAIN activations :
          LET c == activations[a].calls
              n == Len(c)
          IN /\ IF c[n] = "onError"
                THEN /\ n - 1 \in {1, 3, 4}
                     /\ isPrefix(SubSeq(c, 1, n - 1), Pipeline)
                     /\ activations[a].pc = "done"
                ELSE /\ n \in {1, 3, 4, 5}
                     /\ isPrefix(c, Pipeline)
             /\ failedAt(a, 1) => activations[a].manifest = NoManifest
             /\ (activations[a].load = 0)
                  <=> (count(c, "loadDynamicPlugin") = 0)
             /\ failedAt(a, 4) => loads[activations[a].load].state = "rejected"
             /\ c[n] = "setDynamicPluginEnabled"
                  => loads[activations[a].load].state = "fulfilled")
  /\ [][\A a \in DOMAIN activations :
          (/\ activations[a].load = 0
           /\ Len(activations'[a].onError) > Len(activations[a].onError))
          => /\ activations'[a].load = 0
             /\ UNCHANGED <<pluginMap, document, loads, store>>]_vars

C6_Witness ==
  \E a, b \in DOMAIN activations :
    /\ failedAt(a, 3)
    /\ activations[a].load = 0
    /\ activations[b].calls = Pipeline
    /\ Len(loads) = 1

\* C7: when an activation's script loads after an entry callback whose
\* initializer did not throw, the store has received addDynamicPlugin(id,
\* manifest, extensions) and after it setDynamicPluginEnabled(id, true) for
\* the same id, and onError was not called.
C7_AddThenEnable ==
  \A a \in DOMAIN activations :
    LET act == activations[a]
        id == getPluginID(act.manifest)
    IN (/\ act.pc = "done"
        /\ act.load # 0
        /\ loads[act.load].state = "fulfilled"
        /\ \A e \in 0..resets : ~initFailed(id, e))
       => /\ act.onError = <<>>
          /\ \E j, k \in DOMAIN store :
               /\ j < k
               /\ store[j].op = "addDynamicPlugin"
               /\ store[j].id = id
               /\ store[j].manifest = act.manifest
               /\ store[j].extensions =
                     resolveEncodedCodeRefs(act.manifest.extensions, id)
               /\ k \in enableCalls(id)

C7_Witness ==
  \E a \in DOMAIN activations :
    /\ activations[a].calls = Pipeline
    /\ activations[a].onError = <<>>
    /\ Len(store) = 2
    /\ store[1].op = "addDynamicPlugin"
    /\ store[1].id = "foo@1.0.0"
    /\ store[2].op = "setDynamicPluginEnabled"
    /\ store[2].id = "foo@1.0.0"

nameOfID(id) == {m.name : m \in {x \in Manifests : getPluginID(x) = id}}

enabledNames ==
  UNION {nameOfID(store[k].id) :
           k \in {x \in DOMAIN store : store[x].op = "setDynamicPluginEnabled"}}

oneOutcome(a) ==
  /\ count(activations[a].calls, "onError")
       + count(activations[a].calls, "setDynamicPluginEnabled") <= 1
  /\ Len(activations[a].onError) = count(activations[a].calls, "onError")

succeeded(a) ==
  /\ activations[a].onError = <<>>
  /\ count(activations[a].calls, "setDynamicPluginEnabled") = 1

\* C8 as stated: each attempt calls at most one of onError and
\* setDynamicPluginEnabled, at most once, and a plugin whose activation
\* failed is not enabled in the store.
C8_Original ==
  \A a \in DOMAIN activations :
    /\ oneOutcome(a)
    /\ activations[a].onError # <<>>
         => activations[a].pluginName \notin enabledNames

\* C8 (amended): each attempt calls at most one of onError and
\* setDynamicPluginEnabled, at most once; an attempt that called onError
\* makes no setDynamicPluginEnabled call, and every setDynamicPluginEnabled
\* call in the store comes from an attempt for that identifier that did not
\* fail.
C8_FailedAttemptEnablesNothing ==
  /\ \A a \in DOMAIN activations : oneOutcome(a)
  /\ Cardinality({k \in DOMAIN store :
                    store[k].op = "setDynamicPluginEnabled"})
       = Cardinality({a \in DOMAIN activations : succeeded(a)})
  /\ \A k \in DOMAIN store :
       store[k].op = "setDynamicPluginEnabled"
       => \E a \in DOMAIN activations :
            /\ succeeded(a)
            /\ getPluginID(activations[a].manifest) = store[k].id

C8_Witness ==
  \E a, b \in DOMAIN activations :
    /\ failedAt(a, 4)
    /\ succeeded(b)
    /\ activations[a].manifest = activations[b].manifest
    /\ Cardinality(enableCalls(getPluginID(activations[a].manifest))) = 1

\* C9: after loadDynamicPlugin has injected a script and its promise was
\* rejected, the record and the script element stay, so until the next
\* reset every later loadDynamicPlugin call for the same name, direct or
\* made by loadAndEnablePlugin, is rejected with the duplicate-plugin
\* error and such an activation ends in onError.
C9_FailedLoadBlocksRetry ==
  \A i \in DOMAIN loads :
    (passed(loads[i]) /\ loads[i].state = "rejected" /\ loads[i].epoch = resets)
    => /\ loads[i].pluginID \in DOMAIN pluginMap
       /\ pluginMap[loads[i].pluginID].manifest = loads[i].manifest
       /\ \E k \in DOMAIN document :
            document[k] = [id |-> getScriptElementID(loads[i].manifest),
                           load |-> i]
       /\ \A j \in DOMAIN loads :
            (/\ j > i
             /\ loads[j].manifest.name = loads[i].manifest.name
             /\ loads[j].epoch = resets)
            => /\ isDuplicateError(loads[j])
               /\ ~passed(loads[j])
               /\ \A a \in DOMAIN activations :
                    (activations[a].load = j /\ activations[a].pc = "done")
                    => failedAt(a, 4)

C9_Witness ==
  \E i, j \in DOMAIN loads, a \in DOMAIN activations :
    /\ i < j
    /\ passed(loads[i])
    /\ loads[i].state = "rejected"
    /\ loads[i].epoch = resets
    /\ activations[a].load = j
    /\ loads[j].manifest.name = loads[i].manifest.name
    /\ loads[j].epoch = resets
    /\ failedAt(a, 4)

\* C10: among the loadDynamicPlugin calls made for one plugin name between
\* two resets, however the callers interleave, at most one passes the
\* duplicate check; every other one comes after it, is rejected with the
\* duplicate-plugin error naming its record, and injects no script.
C10_SingleFlightPerName ==
  \A n \in PluginNames, e \in 0..resets :
    LET group == {i \in DOMAIN loads :
                    loads[i].manifest.name = n /\ loads[i].epoch = e}
        winners == {i \in group : passed(loads[i])}
    IN /\ Cardinality(winners) <= 1
       /\ \A j \in group \ winners :
            /\ isDuplicateError(loads[j])
            /\ \E i \in winners :
                 /\ i < j
                 /\ loads[j].value =
                      ReloadError(loads[i].pluginID, loads[j].pluginID)
       /\ Cardinality({k \in DOMAIN document :
                         /\ document[k].load \in group
                         /\ e = resets}) <= 1

C10_Witness ==
  /\ Len(activations) = 2
  /\ activations[1].load = 2
  /\ activations[2].load = 1
  /\ loads[1].state = "pending"
  /\ isDuplicateError(loads[2])
  /\ loads[1].manifest.version # loads[2].manifest.version

loaderElements(doc) ==
  {k \in DOMAIN doc : startsWith(doc[k].id, scriptIDPrefix)}

\* C11: a reset leaves pluginMap empty, removes every element whose id
\* starts with the loader's prefix (and no other element), and unbinds
\* window.loadPluginEntry; afterwards the first loadDynamicPlugin call for
\* any name, also one loaded before the reset, passes the duplicate check.
C11_ResetClearsEverything ==
  /\ [][resets' = resets + 1
          => /\ pluginMap' = <<>>
             /\ loaderElements(document') = {}
             /\ document' = SelectSeq(document, LAMBDA e : e.load = 0)
             /\ ~loadPluginEntry']_vars
  /\ [](\A j \in DOMAIN loads :
          (\A i \in DOMAIN loads :
             (i < j /\ loads[i].epoch = loads[j].epoch
                    /\ loads[i].manifest.name = loads[j].manifest.name)
             => ~passed(loads[i]))
          => passed(loads[j]))

C11_Witness ==
  /\ resets = 1
  /\ \E i, j \in DOMAIN loads :
       /\ passed(loads[i]) /\ loads[i].epoch = 0
       /\ passed(loads[j]) /\ loads[j].epoch = 1
       /\ loads[i].manifest.name = loads[j].manifest.name
  /\ Cardinality(loaderElements(document)) = 1
  /\ Cardinality(DOMAIN pluginMap) = 1

\* The flag the load handler reads: true only when the record is there and
\* its entryCallbackFired is true.
callbackFired(pluginID) ==
  /\ pluginID \in DOMAIN pluginMap
  /\ pluginMap[pluginID].entryCallbackFired

loadEventAt(i) ==
  loads[i].script = "loading" /\ loads'[i].script = "load"

errorEventAt(i) ==
  loads[i].script = "loading" /\ loads'[i].script = "error"

\* C12: the promise of a loadDynamicPlugin call that passed the duplicate
\* check is settled by the script's events only: the load event resolves it
\* with the plugin identifier when the record's entryCallbackFired is true
\* and otherwise rejects it with the loaded-without-callback error, the
\* error event rejects it with the script-load error, no other step settles
\* it, and once settled (also by a later entry callback) it never changes.
C12_OutcomeDecidedByScriptEvents ==
  [][\A i \in DOMAIN loads :
       passed(loads[i]) =>
         /\ loadEventAt(i) =>
              IF callbackFired(loads[i].pluginID)
              THEN /\ loads'[i].state = "fulfilled"
                   /\ loads'[i].value = loads[i].pluginID
              ELSE /\ loads'[i].state = "rejected"
                   /\ loads'[i].value = NoCallbackError(loads[i].pluginID)
         /\ errorEventAt(i) =>
              /\ loads'[i].state = "rejected"
              /\ loads'[i].value = ScriptLoadError(loads[i].src)
         /\ (loads[i].state = "pending" /\ loads'[i].state # "pending")
              => (loadEventAt(i) \/ errorEventAt(i))
         /\ loads[i].state # "pending"
              => /\ loads'[i].state = loads[i].state
                 /\ loads'[i].value = loads[i].value]_vars

\* C13: a record enters pluginMap with entryCallbackFired = false; the flag
\* changes only from false to true, only in a step of the entry callback
\* handler, in which the shared-module initializer is called for that
\* identifier; while the record exists the flag never returns to false, and
\* a callback for a record whose flag is already true changes nothing in
\* pluginMap.
C13_FlagFlipsOnce ==
  [][\A id \in PluginIDs :
       /\ (id \notin DOMAIN pluginMap /\ id \in DOMAIN pluginMap')
            => ~pluginMap'[id].entryCallbackFired
       /\ (id \in DOMAIN pluginMap /\ id \in DOMAIN pluginMap')
            => /\ pluginMap[id].entryCallbackFired
                    => pluginMap'[id] = pluginMap[id]
               /\ (~pluginMap[id].entryCallbackFired
                     /\ pluginMap'[id].entryCallbackFired)
                    => /\ loadPluginEntry
                       /\ entryCalls' = entryCalls + 1
                       /\ Cardinality(initCalls(id, resets)') =
                            Cardinality(initCalls(id, resets)) + 1]_vars

C13_Witness ==
  \E id \in DOMAIN pluginMap :
    /\ pluginMap[id].entryCallbackFired
    /\ entryCalls = 2
    /\ Cardinality(initCalls(id, resets)) = 1
    /\ logged(AlreadyLoadedMessage(id), resets)

\* The step is an entry callback that was accepted for id.
acceptedAt(id) ==
  /\ id \in DOMAIN pluginMap /\ id \in DOMAIN pluginMap'
  /\ ~pluginMap[id].entryCallbackFired
  /\ pluginMap'[id].entryCallbackFired

\* The step logged the already-loaded error for id: a callback for id was
\* rejected in it.
rejectedAt(id) ==
  /\ Len(console') > Len(console)
  /\ \E k \in (Len(console) + 1)..Len(console') :
       console'[k].message = AlreadyLoadedMessage(id)

\* C14: the flag is set before the initializer, the resolver and the store
\* are invoked, so a callback for the same identifier that is invoked
\* reentrantly during an accepted callback is rejected as already loaded:
\* one handler step never calls the initializer or addDynamicPlugin more
\* than once for an identifier, and a step that both accepts and rejects a
\* callback for id calls the initializer exactly once.
C14_ReentrantCallbackRejected ==
  [][entryCalls' = entryCalls + 1 =>
       \A id \in PluginIDs :
         /\ Len(sharedInit') <= Len(sharedInit) + 1
         /\ Len(store') <= Len(store) + 1
         /\ (acceptedAt(id) /\ rejectedAt(id))
              => /\ Cardinality(initCalls(id, resets)') =
                      Cardinality(initCalls(id, resets)) + 1
                 /\ Cardinality(addCalls(id, resets)') <=
                      Cardinality(addCalls(id, resets)) + 1
         /\ (~acceptedAt(id) /\ rejectedAt(id))
              => /\ sharedInit' = sharedInit
                 /\ store' = store]_vars

\* One callback was made, it was accepted and its reentrant call rejected.
C14_Witness ==
  \E id \in DOMAIN pluginMap :
    /\ entryCalls = 1
    /\ pluginMap[id].entryCallbackFired
    /\ logged(AlreadyLoadedMessage(id), resets)
    /\ Cardinality(initCalls(id, resets)) = 1
    /\ Cardinality(addCalls(id, resets)) = 1

\* C15: a step that is not a reset removes no record from pluginMap and
\* changes no stored manifest; the only change it can make to an existing
\* record is the flip of entryCallbackFired by an accepted entry callback.
C15_RecordsOnlyRemovedByReset ==
  [][resets' = resets =>
       \A id \in DOMAIN pluginMap :
         /\ id \in DOMAIN pluginMap'
         /\ pluginMap'[id].manifest = pluginMap[id].manifest
         /\ pluginMap'[id] # pluginMap[id] => acceptedAt(id)]_vars

\* An activation failed at the injection stage on a script event and the
\* record of its plugin is still there, manifest unchanged.
C15_Witness ==
  \E a \in DOMAIN activations :
    /\ activations[a].pc = "done"
    /\ activations[a].onError # <<>>
    /\ activations[a].load # 0
    /\ LET l == loads[activations[a].load]
       IN /\ l.script \in {"load", "error"}
          /\ l.state = "rejected"
          /\ l.epoch = resets
          /\ l.pluginID \in DOMAIN pluginMap
          /\ pluginMap[l.pluginID].manifest = l.manifest

scriptElementIDs == {document[k].id : k \in loaderElements(document)}

recordNames == {pluginMap[id].manifest.name : id \in DOMAIN pluginMap}

\* C16: a loadDynamicPlugin call that passes the duplicate check appends
\* exactly one script element, whose id is the prefix, a dash and the
\* manifest name, and a rejected duplicate call leaves the document as it
\* is; in every state the document holds at most one loader script element
\* per name and the element ids are exactly those of the names of the
\* records in pluginMap.
C16_OneScriptPerRecord ==
  /\ [](/\ Cardinality(loaderElements(document)) =
             Cardinality(scriptElementIDs)
        /\ scriptElementIDs =
             {scriptIDPrefix \o "-" \o name : name \in recordNames})
  /\ [][Len(loads') = Len(loads) + 1 =>
          LET l == loads'[Len(loads')]
          IN IF passed(l)
             THEN document' = Append(document,
                    [id |-> scriptIDPrefix \o "-" \o l.manifest.name,
                     load |-> Len(loads')])
             ELSE document' = document]_vars

\* Two plugins are loaded and a duplicate call for one of them was rejected.
C16_Witness ==
  /\ Cardinality(loaderElements(document)) = 2
  /\ Cardinality(DOMAIN pluginMap) = 2
  /\ \E i \in DOMAIN loads : ~passed(loads[i]) /\ loads[i].epoch = resets

\* The activation injected a script whose load and error events are both
\* still undelivered.
awaitingScript(a) ==
  /\ activations[a].load # 0
  /\ loads[activations[a].load].script = "loading"

\* C17: there is no timeout: as long as neither the load nor the error event
\* of an injected script has been delivered its promise is pending, and the
\* activation that awaits it is still at the injection stage and has called
\* neither onError nor setDynamicPluginEnabled, whatever the entry callback
\* and the store have done meanwhile; so if the events never come this
\* lasts forever.
C17_NoEventNoOutcome ==
  /\ \A i \in DOMAIN loads :
       loads[i].script = "loading" => loads[i].state = "pending"
  /\ \A a \in DOMAIN activations :
       awaitingScript(a) =>
         /\ activations[a].pc = "loadDynamicPlugin"
         /\ activations[a].onError = <<>>
         /\ count(activations[a].calls, "onError") = 0
         /\ count(activations[a].calls, "setDynamicPluginEnabled") = 0

\* The entry callback fired and addDynamicPlugin was called while the
\* script's events are still undelivered.
C17_Witness ==
  \E a \in DOMAIN activations :
    /\ awaitingScript(a)
    /\ LET l == loads[activations[a].load]
       IN /\ l.epoch = resets
          /\ callbackFired(l.pluginID)
          /\ addCalls(l.pluginID, resets) # {}

\* The step in which activation a calls setDynamicPluginEnabled.
enablesAt(a) ==
  /\ activations[a].pc = "loadDynamicPlugin"
  /\ activations'[a].pc = "done"
  /\ activations'[a].calls =
       Append(activations[a].calls, "setDynamicPluginEnabled")

\* C18 as stated: setDynamicPluginEnabled(id, true) is called only in a
\* state where pluginMap holds a record for id with entryCallbackFired =
\* true.
C18_Original ==
  [][\A a \in DOMAIN activations :
       enablesAt(a) => callbackFired(getPluginID(activations[a].manifest))
    ]_vars

\* C18, amended: setDynamicPluginEnabled(id, true) is called only for a
\* promise that the script's load event resolved with id; the load event
\* resolves only in a state where pluginMap holds a record for id with
\* entryCallbackFired = true, so an entry callback for exactly that
\* identifier was accepted before the load event; and when no reset ran
\* since the injection the record is still there, flag true, at the call.
C18_EnabledOnlyAfterAcceptedCallback ==
  /\ [][\A a \in DOMAIN activations :
          enablesAt(a) =>
            LET l == loads[activations[a].load]
                id == getPluginID(activations[a].manifest)
            IN /\ l.script = "load"
               /\ l.state = "fulfilled"
               /\ l.value = id
               /\ \E k \in DOMAIN sharedInit : sharedInit[k].pluginID = id
               /\ store'[Len(store')] =
                    [op |-> "setDynamicPluginEnabled", id |-> id,
                     enabled |-> TRUE, epoch |-> resets]
               /\ l.epoch = resets => callbackFired(id)]_vars
  /\ [][\A i \in DOMAIN loads :
          (loadEventAt(i) /\ loads'[i].state = "fulfilled")
            => /\ callbackFired(loads[i].pluginID)
               /\ \E k \in DOMAIN sharedInit :
                    sharedInit[k].pluginID = loads[i].pluginID]_vars

\* A plugin was enabled after a reset had removed its record.
C18_Witness ==
  \E a \in DOMAIN activations :
    /\ succeeded(a)
    /\ loads[activations[a].load].epoch = 0
    /\ \E k \in enableCalls(getPluginID(activations[a].manifest)) :
         store[k].epoch = 1
    /\ getPluginID(activations[a].manifest) \notin DOMAIN pluginMap

\* C19: in every reachable state, also after a reset that ran while a
\* script was in flight, the load event of an injected script finds the
\* record of its plugin in pluginMap, the handler's lookup does not fail,
\* and the promise is settled in the step that delivers the load or the
\* error event.
C19_LoadEventFindsRecord ==
  [][\A i \in DOMAIN loads :
       /\ loadEventAt(i) =>
            /\ loads[i].pluginID \in DOMAIN pluginMap
            /\ ~loads'[i].threw
            /\ loads'[i].state \in {"fulfilled", "rejected"}
       /\ errorEventAt(i) => loads'[i].state = "rejected"]_vars

\* The entries the step appends to the store log.
newStoreCalls == {k \in DOMAIN store' : k > Len(store)}

\* C20: addDynamicPlugin(id, manifest, extensions) is called only in a step
\* that accepted the entry callback for id, a record of pluginMap whose
\* entryCallbackFired is true once the call is made; the manifest passed
\* is the one of that record, put there by the loadDynamicPlugin call that
\* passed the duplicate check for id since the last reset, and the
\* extensions are that manifest's extensions after code-reference
\* resolution.
C20_AddOnlyForFiredRecord ==
  [][\A k \in newStoreCalls :
       store'[k].op = "addDynamicPlugin" =>
         LET id == store'[k].id
         IN /\ acceptedAt(id)
            /\ store'[k].manifest = pluginMap[id].manifest
            /\ store'[k].manifest = pluginMap'[id].manifest
            /\ store'[k].extensions =
                 resolveEncodedCodeRefs(pluginMap[id].manifest.extensions, id)
            /\ \E i \in DOMAIN loads :
                 /\ passed(loads[i])
                 /\ loads[i].epoch = resets
                 /\ loads[i].pluginID = id
                 /\ loads[i].manifest = store'[k].manifest]_vars

C20_Witness ==
  \E k \in DOMAIN store :
    /\ store[k].op = "addDynamicPlugin"
    /\ store[k].epoch = resets
    /\ callbackFired(store[k].id)
    /\ store[k].manifest = pluginMap[store[k].id].manifest
    /\ store[k].manifest.version = "2.0.0"
====
